---- MODULE Spec2Model ----
(***************************************************************************)
(* Model of lib/models/layers_custom/layers_custom_v1.py: five MXNet       *)
(* CustomOp plugins (BilinearScale, BilinearScaleLike, SegmentLoss,        *)
(* CompletionLoss, MultiSigmoidLoss) and their CustomOpProp shape          *)
(* inference.                                                              *)
(*                                                                         *)
(* Numbers.  Tensor elements are exact rationals <<num, den>> (den > 0,    *)
(* lowest terms) or one of the IEEE specials NaN / Inf that a float        *)
(* division by zero produces.  Rounding of float32 is not modelled.        *)
(* A logit is stored as the rational value of its exponential, so that     *)
(* softmax and sigmoid are exact: softmax_c = e_c / sum e, sigmoid = e/(1+e)*)
(*                                                                         *)
(* Indices.  Every axis is indexed from 1; class k of the code (0-based)   *)
(* lives in channel k + 1.                                                 *)
(***************************************************************************)
EXTENDS Integers, Sequences, FiniteSets, TLC

(***************************************************************************)
(* Bounds of the model.                                                    *)
(***************************************************************************)
MaxN == 2
MaxC == 2
MaxHW == 2
MaxCalls == 2

(***************************************************************************)
(* Rational arithmetic with IEEE specials.                                 *)
(***************************************************************************)
\* the specials have denominator 0
NaN == <<0, 0>>
Inf == <<1, 0>>

Abs(i) == IF i < 0 THEN -i ELSE i

RECURSIVE GCD(_, _)
GCD(a, b) == IF b = 0 THEN a ELSE GCD(b, a % b)

\* p / q in lowest terms, q # 0
Norm(p, q) ==
  IF q = 1 THEN <<p, 1>>
  ELSE IF p = 0 THEN <<0, 1>>
  ELSE LET s == IF q < 0 THEN -1 ELSE 1
           g == GCD(Abs(p), Abs(q))
       IN  <<(s * p) \div g, (s * q) \div g>>

R(i) == <<i, 1>>
Zero == <<0, 1>>
One == <<1, 1>>
IsSpecial(a) == a[2] = 0

RAdd(a, b) ==
  IF a[2] = 1 /\ b[2] = 1 THEN <<a[1] + b[1], 1>>
  ELSE IF a = NaN \/ b = NaN THEN NaN
  ELSE IF a = Inf \/ b = Inf THEN Inf
  ELSE Norm(a[1] * b[2] + b[1] * a[2], a[2] * b[2])

RNeg(a) == IF IsSpecial(a) THEN a ELSE <<-a[1], a[2]>>

RSub(a, b) ==
  IF a[2] = 1 /\ b[2] = 1 THEN <<a[1] - b[1], 1>>
  ELSE RAdd(a, RNeg(b))

RMul(a, b) ==
  IF a[2] = 1 /\ b[2] = 1 THEN <<a[1] * b[1], 1>>
  ELSE IF a = NaN \/ b = NaN THEN NaN
  ELSE IF a = Inf \/ b = Inf
       THEN (IF a = Zero \/ b = Zero THEN NaN ELSE Inf)
  ELSE Norm(a[1] * b[1], a[2] * b[2])

\* float division: x / 0 is inf (sign not tracked), 0 / 0 is nan
RDiv(a, b) ==
  IF a = NaN \/ b = NaN THEN NaN
  ELSE IF a = Inf THEN (IF b = Inf THEN NaN ELSE Inf)
  ELSE IF b = Inf THEN Zero
  ELSE IF b[1] = 0 THEN (IF a[1] = 0 THEN NaN ELSE Inf)
  ELSE Norm(a[1] * b[2], a[2] * b[1])

\* a < b on finite rationals
RLess(a, b) == a[1] * b[2] < b[1] * a[2]

RMax(a, b) == IF RLess(a, b) THEN b ELSE a

\* floor of a non-negative rational
RFloor(a) == a[1] \div a[2]

(***************************************************************************)
(* Tensors: [shape |-> <<d1, ..., dr>>, v |-> [Idx(shape) -> element]].    *)
(***************************************************************************)
Idx(shape) ==
  IF Len(shape) = 4
  THEN (1..shape[1]) \X (1..shape[2]) \X (1..shape[3]) \X (1..shape[4])
  ELSE IF Len(shape) = 3
  THEN (1..shape[1]) \X (1..shape[2]) \X (1..shape[3])
  ELSE IF Len(shape) = 2
  THEN (1..shape[1]) \X (1..shape[2])
  ELSE {<<k>> : k \in 1..shape[1]}

Tensor(shape, f(_)) ==
  [shape |-> shape, v |-> [t \in Idx(shape) |-> f(t)] @@ <<>>]

Fill(shape, a) == Tensor(shape, LAMBDA t : a)

\* s[1] + ... + s[n]
RECURSIVE SumTo(_, _)
SumTo(s, n) == IF n = 0 THEN Zero ELSE RAdd(s[n], SumTo(s, n - 1))

\* the sum of a sequence of elements
SumSeq(s) == SumTo(s, Len(s))

\* x.sum() of a 4-D array: the sum of all elements
SumAll(x) ==
  SumSeq([n \in 1..x.shape[1] |->
    SumSeq([c \in 1..x.shape[2] |->
      SumSeq([h \in 1..x.shape[3] |->
        SumSeq([w \in 1..x.shape[4] |-> x.v[<<n, c, h, w>>]])])])])

\* elementwise binary operation on tensors of one shape
Zip(x, y, op(_, _)) == Tensor(x.shape, LAMBDA t : op(x.v[t], y.v[t]))

\* the shape that stands for "no array": the operation raised an error
Mismatch == <<0>>
NoArray == [shape |-> Mismatch, v |-> <<>>]

\* shape of a broadcast binary operation, or Mismatch when the operands
\* cannot be broadcast against each other
BShape(s1, s2) ==
  IF Len(s1) # Len(s2) THEN Mismatch
  ELSE IF \A k \in 1..Len(s1) : s1[k] = s2[k] \/ s1[k] = 1 \/ s2[k] = 1
       THEN [k \in 1..Len(s1) |-> IF s1[k] = 1 THEN s2[k] ELSE s1[k]]
       ELSE Mismatch

\* index of a broadcast operand that feeds element t of the result
BIdx(shape, t) == [k \in 1..Len(shape) |-> IF shape[k] = 1 THEN 1 ELSE t[k]]

\* broadcasting elementwise operation (NDArray -, *, / on two arrays)
Bcast(x, y, op(_, _)) ==
  Tensor(BShape(x.shape, y.shape),
         LAMBDA t : op(x.v[BIdx(x.shape, t)], y.v[BIdx(y.shape, t)]))

\* elementwise operation with a scalar
Scalar(x, a, op(_, _)) == Tensor(x.shape, LAMBDA t : op(x.v[t], a))

(***************************************************************************)
(* The mx.nd functions the operators call.                                 *)
(***************************************************************************)
\* mx.nd.softmax(x, axis=1) on exponentials of logits
softmax(x) ==
  LET total == [p \in Idx(<<x.shape[1], x.shape[3], x.shape[4]>>) |->
                  SumSeq([c \in 1..x.shape[2] |-> x.v[<<p[1], c, p[2], p[3]>>]])]
  IN  Tensor(x.shape, LAMBDA t : RDiv(x.v[t], total[<<t[1], t[3], t[4]>>]))

\* mx.nd.sigmoid(x) on exponentials of logits
sigmoid(x) == Tensor(x.shape, LAMBDA t : RDiv(x.v[t], RAdd(One, x.v[t])))

\* mx.nd.one_hot(indices, depth): a new last axis of length depth; an index
\* outside [0, depth) gives an all-zero row
one_hot(ind, depth) ==
  Tensor(Append(ind.shape, depth),
    LAMBDA t : IF ind.v[SubSeq(t, 1, Len(t) - 1)] = R(t[Len(t)] - 1)
               THEN One ELSE Zero)

\* x.transpose((0, 3, 1, 2)): (n, h, w, c) -> (n, c, h, w)
transpose0312(x) ==
  Tensor(<<x.shape[1], x.shape[4], x.shape[2], x.shape[3]>>,
    LAMBDA t : x.v[<<t[1], t[3], t[4], t[2]>>])

\* the largest element of a non-empty set of finite rationals
MaxOf(S) == CHOOSE a \in S : \A b \in S : ~RLess(a, b)

\* mx.nd.argmax(x, axis=1): index (0-based) of the first maximum along the
\* channel axis; result shape (n, h, w)
argmax1(x) ==
  Tensor(<<x.shape[1], x.shape[3], x.shape[4]>>,
    LAMBDA t :
      LET col == [c \in 1..x.shape[2] |-> x.v[<<t[1], c, t[2], t[3]>>]]
          m   == MaxOf({col[c] : c \in 1..x.shape[2]})
      IN  R((CHOOSE c \in 1..x.shape[2] :
               col[c] = m /\ \A d \in 1..(c - 1) : col[d] # m) - 1))

\* mx.nd.max(x, axis=1, keepdims=True)
max1(x) ==
  Tensor(<<x.shape[1], 1, x.shape[3], x.shape[4]>>,
    LAMBDA t : MaxOf({x.v[<<t[1], c, t[3], t[4]>>] : c \in 1..x.shape[2]}))

\* x.sum(axis=1, keepdims=True)
sum1(x) ==
  Tensor(<<x.shape[1], 1, x.shape[3], x.shape[4]>>,
    LAMBDA t : SumSeq([c \in 1..x.shape[2] |-> x.v[<<t[1], c, t[3], t[4]>>]]))

\* x.max(axis=(2, 3), keepdims=True)
max23(x) ==
  Tensor(<<x.shape[1], x.shape[2], 1, 1>>,
    LAMBDA t : MaxOf({x.v[<<t[1], t[2], h, w>>] :
                        h \in 1..x.shape[3], w \in 1..x.shape[4]}))

\* x > a as a 0/1 array
greater(x, a) ==
  Tensor(x.shape, LAMBDA t : IF RLess(a, x.v[t]) THEN One ELSE Zero)

\* x.reshape(-1, 1, 1, 1) of a 1-D array
reshape_n111(x) ==
  Tensor(<<x.shape[1], 1, 1, 1>>, LAMBDA t : x.v[<<t[1]>>])

(***************************************************************************)
(* mx.nd.contrib.BilinearResize2D(x, height, width): bilinear              *)
(* interpolation with aligned corners, and its gradient.                   *)
(***************************************************************************)
\* source coordinate of destination coordinate d (0-based) along one axis
SrcCoord(src, dst, d) ==
  IF dst > 1 THEN Norm((src - 1) * d, dst - 1) ELSE Zero

\* for every destination position d (1-based) along one axis: the two source
\* positions it is interpolated from and their weights
Taps(src, dst) ==
  [d \in 1..dst |->
     LET r   == SrcCoord(src, dst, d - 1)
         lo  == RFloor(r) + 1
         hi  == IF lo < src THEN lo + 1 ELSE lo
         whi == RSub(r, R(lo - 1))
     IN  [lo |-> lo, hi |-> hi, wlo |-> RSub(One, whi), whi |-> whi]]

BilinearResize2D(x, height, width) ==
  LET th == Taps(x.shape[3], height)
      tw == Taps(x.shape[4], width)
  IN  Tensor(<<x.shape[1], x.shape[2], height, width>>,
        LAMBDA t :
          LET a == th[t[3]]
              b == tw[t[4]]
              row(hh) ==
                RAdd(RMul(b.wlo, x.v[<<t[1], t[2], hh, b.lo>>]),
                     RMul(b.whi, x.v[<<t[1], t[2], hh, b.hi>>]))
          IN  RAdd(RMul(a.wlo, row(a.lo)), RMul(a.whi, row(a.hi))))

\* weight with which source position s feeds the destination position whose
\* taps are tap
Weight(tap, s) ==
  RAdd(IF tap.lo = s THEN tap.wlo ELSE Zero,
       IF tap.hi = s THEN tap.whi ELSE Zero)

\* gradient of BilinearResize2D with respect to its input of shape `shape`,
\* for head gradient g: every output element is scattered back to the
\* source elements it was interpolated from
BilinearResize2DGrad(shape, g) ==
  IF Len(g.shape) # 4 \/ <<g.shape[1], g.shape[2]>> # <<shape[1], shape[2]>>
  THEN NoArray
  ELSE
  LET th == Taps(shape[3], g.shape[3])
      tw == Taps(shape[4], g.shape[4])
      wh == [s \in 1..shape[3] |-> [d \in 1..g.shape[3] |-> Weight(th[d], s)]]
      ww == [s \in 1..shape[4] |-> [d \in 1..g.shape[4] |-> Weight(tw[d], s)]]
  IN  Tensor(shape,
        LAMBDA t :
          SumSeq([dh \in 1..g.shape[3] |->
            SumSeq([dw \in 1..g.shape[4] |->
              RMul(g.v[<<t[1], t[2], dh, dw>>],
                   RMul(wh[t[3]][dh], ww[t[4]][dw]))])]))

(***************************************************************************)
(* mx.operator.CustomOp.assign(dst, req, src): the value of dst afterwards,*)
(* or NoArray when src cannot be written into dst (the call raises).       *)
(***************************************************************************)
\* mutant: the request is ignored and the buffer always overwritten
assign_overwrite(dst, r, src) ==
  IF BShape(src.shape, dst.shape) # dst.shape THEN NoArray
  ELSE Tensor(dst.shape, LAMBDA t : src.v[BIdx(src.shape, t)])

assign(dst, r, src) ==
  IF r = "null" THEN dst
  ELSE IF BShape(src.shape, dst.shape) # dst.shape THEN NoArray
  ELSE IF r = "add" THEN Bcast(dst, src, RAdd)
  ELSE Tensor(dst.shape, LAMBDA t : src.v[BIdx(src.shape, t)])

(***************************************************************************)
(* BilinearScale / BilinearScaleProp                                       *)
(***************************************************************************)
\* mutant: the size is rounded up instead of truncated
new_size_ceil(h, sc) == -((-((h - 1) * sc[1])) \div sc[2]) + 1

\* int((h - 1) * self.scale) + 1 in BilinearScale.forward
new_size(h, scale) == RFloor(RMul(R(h - 1), scale)) + 1

\* the array BilinearScale.forward computes as new_x
BilinearScale_new_x(x, scale) ==
  BilinearResize2D(x, new_size(x.shape[3], scale), new_size(x.shape[4], scale))

\* BilinearScaleProp.infer_shape: the declared output shape
BilinearScaleProp_infer_shape(in_shape, scale) ==
  LET n == in_shape[1][1]
      c == in_shape[1][2]
      h == in_shape[1][3]
      w == in_shape[1][4]
      new_h == RFloor(RMul(R(h - 1), scale)) + 1
      new_w == RFloor(RMul(R(w - 1), scale)) + 1
  IN  <<n, c, new_h, new_w>>

(***************************************************************************)
(* BilinearScaleLike / BilinearScaleLikeProp                               *)
(***************************************************************************)
\* the array BilinearScaleLike.forward computes as new_x
BilinearScaleLike_new_x(x, x_ref) ==
  BilinearResize2D(x, x_ref.shape[3], x_ref.shape[4])

\* BilinearScaleLikeProp.infer_shape: the declared output shape
BilinearScaleLikeProp_infer_shape(in_shape) ==
  [in_shape[2] EXCEPT ![2] = in_shape[1][2]]

(***************************************************************************)
(* SegmentLoss.backward                                                    *)
(***************************************************************************)
\* 1e-5
Eps == <<1, 100000>>

\* label after line 88
Segment_onehot(in_data, prediction) ==
  transpose0312(one_hot(in_data[2], prediction.shape[2]))

\* label after lines 90-94: resized to the prediction when the heights differ
Segment_label(in_data, prediction) ==
  LET label == Segment_onehot(in_data, prediction)
  IN  IF prediction.shape[3] # label.shape[3]
      THEN LET r == BilinearResize2D(label, prediction.shape[3],
                                     prediction.shape[4])
           IN  Bcast(transpose0312(one_hot(argmax1(r), prediction.shape[2])),
                     greater(max1(r), <<1, 2>>), RMul)
      ELSE label

\* mutant: the gradient is not masked
Segment_grad0_nomask(prediction, label) ==
  LET mask == sum1(label)
      diff == Bcast(prediction, label, RSub)
  IN  IF diff = NoArray THEN NoArray
      ELSE Scalar(diff,
                  RMax(RDiv(SumAll(mask), R(mask.shape[1])), <<1, 100000>>),
                  RDiv)

\* mutant: num_pixel is not clamped from below
Segment_num_pixel_noclamp(mask) == RDiv(SumAll(mask), R(mask.shape[1]))

\* mask of line 96
Segment_mask(label) == sum1(label)

\* num_pixel of line 97
Segment_num_pixel(mask) == RMax(RDiv(SumAll(mask), R(mask.shape[1])), Eps)

\* grad of line 99, before the grad scale; NoArray when prediction - label
\* raises
Segment_grad0(prediction, label) ==
  LET mask == Segment_mask(label)
      diff == Bcast(prediction, label, RSub)
  IN  IF diff = NoArray THEN NoArray
      ELSE Scalar(Bcast(diff, mask, RMul), Segment_num_pixel(mask), RDiv)

\* grad of lines 99-102
Segment_grad(hgs, in_data, prediction) ==
  LET grad == Segment_grad0(prediction, Segment_label(in_data, prediction))
  IN  IF hgs /\ grad # NoArray
      THEN Bcast(grad, reshape_n111(in_data[3]), RMul)
      ELSE grad

(***************************************************************************)
(* CompletionLoss.backward                                                 *)
(***************************************************************************)
\* onehot after lines 139-144
Completion_onehot(in_data) ==
  LET logit  == in_data[1]
      target == in_data[2]
      label  == transpose0312(one_hot(in_data[3], logit.shape[2]))
      onehot == transpose0312(one_hot(argmax1(target), logit.shape[2]))
      mask   == max23(label)
  IN  Bcast(onehot, mask, RMul)

\* mask of line 146
Completion_mask(onehot) == sum1(onehot)

\* num_pixel of line 147
Completion_num_pixel(mask) == RDiv(SumAll(mask), R(mask.shape[1]))

\* grad of line 149, before the grad scale
Completion_grad0(prediction, onehot) ==
  LET mask == Completion_mask(onehot)
      diff == Bcast(prediction, onehot, RSub)
  IN  IF diff = NoArray THEN NoArray
      ELSE Scalar(Bcast(diff, mask, RMul), Completion_num_pixel(mask), RDiv)

\* grad of lines 149-153
Completion_grad(hgs, in_data, prediction) ==
  LET grad == Completion_grad0(prediction, Completion_onehot(in_data))
  IN  IF hgs /\ grad # NoArray
      THEN Bcast(grad, reshape_n111(in_data[4]), RMul)
      ELSE grad

(***************************************************************************)
(* MultiSigmoidLoss.backward                                               *)
(***************************************************************************)
MultiSigmoid_grad(in_data, prediction) == Bcast(prediction, in_data[2], RSub)

(***************************************************************************)
(* The state: one operator instance, created by create_operator for fixed  *)
(* input shapes, and the buffers the executor passes to its calls.         *)
(***************************************************************************)
VARIABLES
  kind,            \* the registered operator
  scale,           \* BilinearScale.scale
  has_grad_scale,  \* SegmentLoss / CompletionLoss .has_grad_scale
  req,             \* write request of every in_grad buffer
  in_data, out_data, in_grad, out_grad,
  self_x, self_new_x,   \* attributes forward sets on the instance
  err,             \* the exception the last call raised, or "none"
  last,            \* the last thing that happened: "bind", "forward", "backward"
  calls,           \* calls since the inputs were loaded
  fwd_x,           \* history: in_data[0] of the most recent forward call
  fwd_other,       \* history: an earlier forward had another in_data[0]
  memo             \* history: the first gradient written for these inputs

vars == <<kind, scale, has_grad_scale, req, in_data, out_data, in_grad,
          out_grad, self_x, self_new_x, err, last, calls, fwd_x, fwd_other,
          memo>>

config == <<kind, scale, has_grad_scale, req>>

(***************************************************************************)
(* Autograd as the two resize operators use it.  attach_grad gives x a     *)
(* zero gradient buffer; the recorded result remembers the array it was    *)
(* computed from; backward writes the gradient into that array's buffer.   *)
(***************************************************************************)
Unset == [data |-> NoArray, grad |-> NoArray, wrt |-> NoArray]

\* x after x.attach_grad(), as stored in self.x
attach_grad(x) == [data |-> x, grad |-> Fill(x.shape, Zero), wrt |-> NoArray]

\* mutant: forward keeps the result it recorded first
record_first(new_x, x) ==
  IF self_new_x.data = NoArray
  THEN [data |-> new_x, grad |-> NoArray, wrt |-> x]
  ELSE self_new_x

\* new_x as recorded under autograd.record(), as stored in self.new_x
record(new_x, x) == [data |-> new_x, grad |-> NoArray, wrt |-> x]

\* self.x after self.new_x.backward(out_grad[0]); Unset when backward raises
\* because the head gradient does not have the shape of new_x
autograd_backward(sx, snx, g) ==
  IF g.shape # snx.data.shape THEN Unset
  ELSE IF sx.data = snx.wrt
       THEN [sx EXCEPT !.grad = BilinearResize2DGrad(snx.wrt.shape, g)]
       ELSE sx

(***************************************************************************)
(* Inputs the executor supplies.                                           *)
(***************************************************************************)
Resize == {"BilinearScale", "BilinearScaleLike"}
Loss == {"SegmentLoss", "CompletionLoss", "MultiSigmoidLoss"}

ReqVals == {"null", "write", "add"}

\* the request for out_data[0] in forward
out_req == "write"

\* content of a buffer nothing has written yet
Stale == R(7)

Scales == {<<1, 2>>, <<1, 1>>, <<3, 2>>, <<2, 1>>}

Shapes4 == {<<n, c, h, w>> : n \in 1..MaxN, c \in 1..MaxC,
                             h \in 1..MaxHW, w \in 1..MaxHW}

\* at least two classes for the softmax losses
LossShapes4 == {s \in Shapes4 : s[2] >= 2}

\* labels: the classes and the ignore label
LabelVals == (0..(MaxC - 1)) \cup {255}

\* bg everywhere, fg at the last position
Impulse(shape, bg, fg) ==
  Tensor(shape, LAMBDA t : IF t = shape THEN fg ELSE bg)

\* class a is the largest channel everywhere, class b at the last pixel
TargetOf(shape, a, b) ==
  Tensor(shape,
    LAMBDA t : IF t[2] - 1 = (IF <<t[3], t[4]>> = <<shape[3], shape[4]>> /\ t[1] = shape[1]
                              THEN b ELSE a)
               THEN One ELSE Zero)

DataVals(shape) == {Impulse(shape, One, R(v)) : v \in {1, 3}}

LabelMaps(shape) ==
  {Impulse(shape, R(bg), R(fg)) : bg \in {0, 255}, fg \in LabelVals}

GradScales(n) == {Tensor(<<n>>, LAMBDA t : R(t[1] + 1))}

\* the input shapes an operator can be created for
InShapes(k, hgs) ==
  IF k = "BilinearScale" THEN {<<s>> : s \in Shapes4}
  ELSE IF k = "BilinearScaleLike" THEN Shapes4 \X Shapes4
  ELSE IF k = "SegmentLoss"
  THEN {IF hgs THEN <<s, <<s[1], h, w>>, <<s[1]>> >>
               ELSE <<s, <<s[1], h, w>> >> :
          s \in LossShapes4, h \in 1..MaxHW, w \in 1..MaxHW}
  ELSE IF k = "CompletionLoss"
  THEN {IF hgs THEN <<s, s, <<s[1], s[3], s[4]>>, <<s[1]>> >>
               ELSE <<s, s, <<s[1], s[3], s[4]>> >> : s \in LossShapes4}
  ELSE {<<s, s>> : s \in {<<n, c>> : n \in 1..MaxN, c \in 1..MaxC}}

\* the input values the executor can load into buffers of these shapes
Inputs(k, shapes) ==
  IF k = "BilinearScale" THEN {<<x>> : x \in DataVals(shapes[1])}
  ELSE IF k = "BilinearScaleLike"
  THEN {<<x, Fill(shapes[2], One)>> : x \in DataVals(shapes[1])}
  ELSE IF k = "SegmentLoss"
  THEN {IF Len(shapes) = 3 THEN <<x, l, g>> ELSE <<x, l>> :
          x \in DataVals(shapes[1]), l \in LabelMaps(shapes[2]),
          g \in GradScales(shapes[1][1])}
  ELSE IF k = "CompletionLoss"
  THEN {IF Len(shapes) = 4 THEN <<x, TargetOf(shapes[2], ab[1], ab[2]), l, g>>
                           ELSE <<x, TargetOf(shapes[2], ab[1], ab[2]), l>> :
          x \in DataVals(shapes[1]),
          ab \in (0..(shapes[2][2] - 1)) \X (0..(shapes[2][2] - 1)),
          l \in LabelMaps(shapes[3]),
          g \in GradScales(shapes[1][1])}
  ELSE {<<x, l>> : x \in DataVals(shapes[1]),
                   l \in {Impulse(shapes[2], R(bg), R(fg)) :
                            bg \in {0, 1}, fg \in {0, 1}}}

Kinds == {"BilinearScale", "BilinearScaleLike", "SegmentLoss", "CompletionLoss",
          "MultiSigmoidLoss"}

AllInShapes(k) == InShapes(k, FALSE) \cup InShapes(k, TRUE)

\* Inputs, tabulated
InputTable == [k \in Kinds |-> [shapes \in AllInShapes(k) |-> Inputs(k, shapes)]]

\* the head gradients the executor can pass to backward
OutGrads(shape) == {Impulse(shape, One, R(v)) : v \in {1, 2}}

\* the declared output shape: CustomOpProp.infer_shape of the operator
infer_shape(k, sc, shapes) ==
  IF k = "BilinearScale" THEN BilinearScaleProp_infer_shape(shapes, sc)
  ELSE IF k = "BilinearScaleLike" THEN BilinearScaleLikeProp_infer_shape(shapes)
  ELSE shapes[1]

\* what a call wrote into a buffer: its content after a write, the amount
\* added after an add
Written(pre, post, r) == IF r = "add" THEN Bcast(post, pre, RSub) ELSE post

NoMemo == [out_data |-> NoArray, out_grad |-> NoArray, written |-> NoArray]

ShapesOf(arrays) == [i \in 1..Len(arrays) |-> arrays[i].shape]

StaleBuffers(shapes) == [i \in 1..Len(shapes) |-> Fill(shapes[i], Stale)]

InitOf(kinds) ==
  /\ kind \in kinds
  /\ scale \in (IF kind = "BilinearScale" THEN Scales ELSE {One})
  /\ has_grad_scale \in (IF kind \in {"SegmentLoss", "CompletionLoss"}
                         THEN BOOLEAN ELSE {FALSE})
  /\ \E shapes \in InShapes(kind, has_grad_scale) :
       /\ in_data \in InputTable[kind][shapes]
       /\ in_grad = StaleBuffers(shapes)
       /\ out_data = <<Fill(infer_shape(kind, scale, shapes), Stale)>>
       /\ out_grad = <<Fill(infer_shape(kind, scale, shapes), Stale)>>
       /\ \E r \in ReqVals : req = [i \in 1..Len(shapes) |-> r]
  /\ self_x = Unset
  /\ self_new_x = Unset
  /\ err = "none"
  /\ last = "bind"
  /\ calls = 0
  /\ fwd_x = NoArray
  /\ fwd_other = FALSE
  /\ memo = NoMemo

\* the executor loads the next batch into the input buffers
Feed ==
  /\ last # "bind"
  /\ in_data' \in InputTable[kind][ShapesOf(in_data)]
  /\ in_grad' = StaleBuffers(ShapesOf(in_grad))
  /\ out_data' = <<Fill(out_data[1].shape, Stale)>>
  /\ out_grad' = <<Fill(out_grad[1].shape, Stale)>>
  /\ err' = "none"
  /\ last' = "bind"
  /\ calls' = 0
  /\ memo' = NoMemo
  /\ UNCHANGED <<config, self_x, self_new_x, fwd_x, fwd_other>>

Call(name) ==
  /\ calls < MaxCalls
  /\ calls' = calls + 1
  /\ last' = name

\* out_data after self.assign(out_data[0], req[0], value), and the error
Output(value) ==
  LET out == assign(out_data[1], out_req, value)
  IN  IF out = NoArray
      THEN err' = "MXNetError" /\ UNCHANGED out_data
      ELSE err' = "none" /\ out_data' = <<out>>

\* in_grad after the buffers in `zeroed` are set to 0 and then
\* self.assign(in_grad[0], req[0], grad); grad = NoArray: computing it raised
Gradient(zeroed, grad) ==
  LET z  == [i \in 1..Len(in_grad) |->
               IF i \in zeroed THEN Fill(in_grad[i].shape, Zero) ELSE in_grad[i]]
      g0 == assign(z[1], req[1], grad)
  IN  IF grad = NoArray
      THEN err' = "MXNetError" /\ UNCHANGED in_grad
      ELSE IF g0 = NoArray
      THEN err' = "MXNetError" /\ in_grad' = z
      ELSE err' = "none" /\ in_grad' = [z EXCEPT ![1] = g0]

\* forward of the two resize operators: new_x was computed from x
ResizeForward(x, new_x) ==
  /\ self_new_x' = record(new_x, x)
  /\ self_x' = attach_grad(x)
  /\ Output(new_x)
  /\ fwd_x' = x
  /\ fwd_other' = (fwd_other \/ (fwd_x # NoArray /\ fwd_x # x))
  /\ UNCHANGED <<config, in_data, in_grad, out_grad, memo>>

\* backward of the two resize operators
ResizeBackward(zeroed, g) ==
  /\ out_grad' = <<g>>
  /\ IF self_new_x = Unset
     THEN err' = "AttributeError" /\ UNCHANGED <<self_x, in_grad>>
     ELSE LET sx == autograd_backward(self_x, self_new_x, g)
          IN  IF sx = Unset
              THEN err' = "MXNetError" /\ UNCHANGED <<self_x, in_grad>>
              ELSE self_x' = sx /\ Gradient(zeroed, sx.grad)
  /\ UNCHANGED <<config, in_data, out_data, self_new_x, fwd_x, fwd_other,
                 memo>>

BilinearScale_forward ==
  /\ kind = "BilinearScale"
  /\ Call("forward")
  /\ ResizeForward(in_data[1], BilinearScale_new_x(in_data[1], scale))

BilinearScale_backward ==
  /\ kind = "BilinearScale"
  /\ Call("backward")
  /\ \E g \in OutGrads(out_data[1].shape) : ResizeBackward({}, g)

BilinearScaleLike_forward ==
  /\ kind = "BilinearScaleLike"
  /\ Call("forward")
  /\ ResizeForward(in_data[1], BilinearScaleLike_new_x(in_data[1], in_data[2]))

BilinearScaleLike_backward ==
  /\ kind = "BilinearScaleLike"
  /\ Call("backward")
  /\ \E g \in OutGrads(out_data[1].shape) : ResizeBackward({2}, g)

\* mutant: backward applies the head gradient
LossBackward_chain(zeroed, grad, g) ==
  /\ out_grad' = <<g>>
  /\ Gradient(zeroed, IF grad = NoArray THEN grad ELSE Bcast(grad, g, RMul))
  /\ memo' = IF memo = NoMemo /\ err' = "none" /\ req[1] # "null"
             THEN [out_data |-> out_data[1], out_grad |-> g,
                   written |-> Written(in_grad[1], in_grad'[1], req[1])]
             ELSE memo
  /\ UNCHANGED <<config, in_data, out_data, self_x, self_new_x,
                 fwd_x, fwd_other>>

\* forward of the three losses
LossForward(prediction) ==
  /\ Output(prediction)
  /\ UNCHANGED <<config, in_data, in_grad, out_grad, self_x, self_new_x,
                 fwd_x, fwd_other, memo>>

\* backward of the three losses
LossBackward(zeroed, grad, g) ==
  /\ out_grad' = <<g>>
  /\ Gradient(zeroed, grad)
  /\ memo' = IF memo = NoMemo /\ err' = "none" /\ req[1] # "null"
             THEN [out_data |-> out_data[1], out_grad |-> g,
                   written |-> Written(in_grad[1], in_grad'[1], req[1])]
             ELSE memo
  /\ UNCHANGED <<config, in_data, out_data, self_x, self_new_x,
                 fwd_x, fwd_other>>

SegmentLoss_forward ==
  /\ kind = "SegmentLoss"
  /\ Call("forward")
  /\ LossForward(softmax(in_data[1]))

SegmentLoss_backward ==
  /\ kind = "SegmentLoss"
  /\ Call("backward")
  /\ LET grad == Segment_grad(has_grad_scale, in_data, out_data[1])
     IN  \E g \in OutGrads(out_data[1].shape) : LossBackward({2}, grad, g)

CompletionLoss_forward ==
  /\ kind = "CompletionLoss"
  /\ Call("forward")
  /\ LossForward(softmax(in_data[1]))

CompletionLoss_backward ==
  /\ kind = "CompletionLoss"
  /\ Call("backward")
  /\ LET grad == Completion_grad(has_grad_scale, in_data, out_data[1])
     IN  \E g \in OutGrads(out_data[1].shape) : LossBackward({2, 3}, grad, g)

MultiSigmoidLoss_forward ==
  /\ kind = "MultiSigmoidLoss"
  /\ Call("forward")
  /\ LossForward(sigmoid(in_data[1]))

MultiSigmoidLoss_backward ==
  /\ kind = "MultiSigmoidLoss"
  /\ Call("backward")
  /\ LET grad == MultiSigmoid_grad(in_data, out_data[1])
     IN  \E g \in OutGrads(out_data[1].shape) : LossBackward({2}, grad, g)

Init == InitOf(Kinds)

Next ==
  \/ Feed
  \/ BilinearScale_forward
  \/ BilinearScale_backward
  \/ BilinearScaleLike_forward
  \/ BilinearScaleLike_backward
  \/ SegmentLoss_forward
  \/ SegmentLoss_backward
  \/ CompletionLoss_forward
  \/ CompletionLoss_backward
  \/ MultiSigmoidLoss_forward
  \/ MultiSigmoidLoss_backward

Spec == Init /\ [][Next]_vars

\* one BilinearScale instance
InitScale == InitOf({"BilinearScale"})
NextScale == Feed \/ BilinearScale_forward \/ BilinearScale_backward
SpecScale == InitScale /\ [][NextScale]_vars

\* one BilinearScaleLike instance
InitScaleLike == InitOf({"BilinearScaleLike"})
NextScaleLike == Feed \/ BilinearScaleLike_forward \/ BilinearScaleLike_backward
SpecScaleLike == InitScaleLike /\ [][NextScaleLike]_vars

\* one instance of either resize operator
InitResize == InitOf(Resize)
NextResize ==
  \/ Feed
  \/ BilinearScale_forward
  \/ BilinearScale_backward
  \/ BilinearScaleLike_forward
  \/ BilinearScaleLike_backward
SpecResize == InitResize /\ [][NextResize]_vars

\* one SegmentLoss instance
InitSegment == InitOf({"SegmentLoss"})
NextSegment == Feed \/ SegmentLoss_forward \/ SegmentLoss_backward
SpecSegment == InitSegment /\ [][NextSegment]_vars

\* one CompletionLoss instance
InitCompletion == InitOf({"CompletionLoss"})
NextCompletion == Feed \/ CompletionLoss_forward \/ CompletionLoss_backward
SpecCompletion == InitCompletion /\ [][NextCompletion]_vars

\* one instance of any of the three losses
InitLoss == InitOf(Loss)
NextLoss ==
  \/ Feed
  \/ SegmentLoss_forward
  \/ SegmentLoss_backward
  \/ CompletionLoss_forward
  \/ CompletionLoss_backward
  \/ MultiSigmoidLoss_forward
  \/ MultiSigmoidLoss_backward
SpecLoss == InitLoss /\ [][NextLoss]_vars

(***************************************************************************)
(* Steps of the calls, for the properties below.                           *)
(***************************************************************************)
IsForward == last' = "forward" /\ calls' = calls + 1
IsBackward == last' = "backward" /\ calls' = calls + 1
Returned == err' = "none"

(***************************************************************************)
(* C1: BilinearScale: for every input shape (n, c, h, w) and every         *)
(* positive scale, the shape BilinearScaleProp.infer_shape declares is     *)
(* (n, c, int((h-1)*scale)+1, int((w-1)*scale)+1) and it is the shape of   *)
(* the array forward assigns to out_data[0].                               *)
(***************************************************************************)
Scaled(d) == (((d - 1) * scale[1]) \div scale[2]) + 1

C1_ShapeAgrees ==
  (kind = "BilinearScale" /\ last = "forward") =>
    LET s == in_data[1].shape
        expected == <<s[1], s[2], Scaled(s[3]), Scaled(s[4])>>
    IN  /\ BilinearScaleProp_infer_shape(ShapesOf(in_data), scale) = expected
        /\ self_new_x.data.shape = expected
        /\ err = "none"
        /\ out_data[1] = self_new_x.data

\* a forward whose scaled height (h - 1) * scale was truncated
C1_Witness ==
  /\ kind = "BilinearScale"
  /\ last = "forward"
  /\ err = "none"
  /\ ((in_data[1].shape[3] - 1) * scale[1]) % scale[2] # 0
  /\ out_data[1].shape[3] = Scaled(in_data[1].shape[3])
  /\ out_data[1].shape[1] > 1

(***************************************************************************)
(* C2: BilinearScaleLike: for every pair of input shapes (d1, d2), the     *)
(* shape BilinearScaleLikeProp.infer_shape declares equals the shape of    *)
(* the array forward produces: batch and channels of d1, height and width  *)
(* of d2.                                                                  *)
(***************************************************************************)
C2_ShapeAgrees ==
  (kind = "BilinearScaleLike" /\ last = "forward") =>
    LET d1 == in_data[1].shape
        d2 == in_data[2].shape
        expected == <<d1[1], d1[2], d2[3], d2[4]>>
    IN  /\ self_new_x.data.shape = expected
        /\ BilinearScaleLikeProp_infer_shape(ShapesOf(in_data)) = expected

(***************************************************************************)
(* C5: for one BilinearScale or BilinearScaleLike instance and any         *)
(* sequence of forward and backward calls, every backward call writes to   *)
(* in_grad[0] the gradient with respect to the input of the most recent    *)
(* forward call, and a backward call before any forward call raises and    *)
(* writes nothing.                                                         *)
(***************************************************************************)
C5_GradientOfLastForward ==
  [][(kind \in Resize /\ IsBackward) =>
       IF fwd_x = NoArray
       THEN err' = "AttributeError" /\ in_grad' = in_grad
       ELSE Returned =>
              /\ self_x'.data = fwd_x
              /\ req[1] # "null" =>
                   Written(in_grad[1], in_grad'[1], req[1]) =
                     BilinearResize2DGrad(fwd_x.shape, out_grad'[1])]_vars

\* a backward that returned after two forward calls on different inputs
C5_Witness ==
  /\ kind \in Resize
  /\ last = "backward"
  /\ err = "none"
  /\ fwd_other
  /\ req[1] = "write"
  /\ in_grad[1] # Fill(in_grad[1].shape, Zero)
  /\ in_grad[1] # Fill(in_grad[1].shape, Stale)

(***************************************************************************)
(* Pixels of a label map, for the properties of the losses.                *)
(***************************************************************************)
\* the label at pixel p = <<i, h, w>> names a class of a C-channel prediction
InRange(label, p, C) == \E k \in 0..(C - 1) : label.v[p] = R(k)

\* every element of x is a finite number
Finite(x) == \A t \in DOMAIN x.v : ~IsSpecial(x.v[t])

AllZero(x) == \A t \in DOMAIN x.v : x.v[t] = Zero

\* the label map of SegmentLoss has the spatial size of the prediction
SameSize ==
  in_data[2].shape =
    <<out_data[1].shape[1], out_data[1].shape[3], out_data[1].shape[4]>>

(***************************************************************************)
(* C3: SegmentLoss.backward with a label map of the prediction's spatial   *)
(* size: every pixel has mask value 0 or 1; at a pixel whose label is      *)
(* outside [0, C) the gradient written to in_grad[0] is zero in all        *)
(* channels, and at a pixel with label k in [0, C) the gradient in channel *)
(* j is (prediction_j - [j = k]) / num_pixel, times the sample's grad      *)
(* scale when the operator has one.                                        *)
(***************************************************************************)
C3_OneHotGradient ==
  [][(kind = "SegmentLoss" /\ IsBackward /\ SameSize) =>
       LET pred   == out_data[1]
           C      == pred.shape[2]
           label  == in_data[2]
           nvalid == Cardinality({p \in DOMAIN label.v : InRange(label, p, C)})
           num_pixel == IF nvalid = 0 THEN Eps ELSE Norm(nvalid, pred.shape[1])
           gs(i)  == IF has_grad_scale THEN in_data[3].v[<<i>>] ELSE One
           mask   == Segment_mask(Segment_label(in_data, pred))
           w      == Written(in_grad[1], in_grad'[1], req[1])
       IN  /\ Returned
           /\ \A t \in DOMAIN mask.v :
                mask.v[t] = IF InRange(label, <<t[1], t[3], t[4]>>, C)
                            THEN One ELSE Zero
           /\ req[1] # "null" =>
                \A t \in DOMAIN pred.v :
                  LET p == <<t[1], t[3], t[4]>>
                      hot == IF label.v[p] = R(t[2] - 1) THEN One ELSE Zero
                  IN  w.v[t] =
                        IF InRange(label, p, C)
                        THEN RMul(RDiv(RSub(pred.v[t], hot), num_pixel),
                                  gs(t[1]))
                        ELSE Zero]_vars

\* a backward on a softmax prediction whose label map of the same size has
\* a pixel inside and a pixel outside [0, C)
C3_Witness ==
  /\ kind = "SegmentLoss"
  /\ last = "backward"
  /\ err = "none"
  /\ SameSize
  /\ out_data[1] = softmax(in_data[1])
  /\ req[1] = "write"
  /\ \E p \in DOMAIN in_data[2].v : InRange(in_data[2], p, out_data[1].shape[2])
  /\ \E p \in DOMAIN in_data[2].v : ~InRange(in_data[2], p, out_data[1].shape[2])
  /\ ~AllZero(in_grad[1])

(***************************************************************************)
(* C7: SegmentLoss.backward: the label is brought to the prediction's      *)
(* spatial size whenever the two differ in height or in width, so that at  *)
(* prediction - label both arrays have the shape (n, C, H, W).             *)
(***************************************************************************)
C7_SameShapeAtSubtraction ==
  (kind = "SegmentLoss" /\ last = "backward") =>
    Segment_label(in_data, out_data[1]).shape = out_data[1].shape

(***************************************************************************)
(* C9: SegmentLoss.backward never divides by zero: num_pixel is at least   *)
(* 1e-5 for every input, and when no pixel of the batch has a label inside *)
(* [0, C) the gradient written to in_grad[0] is zero at every position.    *)
(***************************************************************************)
C9_NumPixelClamped ==
  [][(kind = "SegmentLoss" /\ IsBackward) =>
       LET pred  == out_data[1]
           label == in_data[2]
           np    == Segment_num_pixel(Segment_mask(Segment_label(in_data, pred)))
           w     == Written(in_grad[1], in_grad'[1], req[1])
       IN  /\ ~IsSpecial(np) /\ ~RLess(np, Eps)
           /\ (Returned /\ req[1] # "null") =>
                /\ Finite(w)
                /\ (\A p \in DOMAIN label.v : ~InRange(label, p, pred.shape[2]))
                     => AllZero(w)]_vars

\* a backward that returned for a label map with no pixel inside [0, C),
\* after a forward
C9_Witness ==
  /\ kind = "SegmentLoss"
  /\ last = "backward"
  /\ err = "none"
  /\ req[1] = "write"
  /\ out_data[1] = softmax(in_data[1])
  /\ \A p \in DOMAIN in_data[2].v :
       ~InRange(in_data[2], p, out_data[1].shape[2])
  /\ AllZero(in_grad[1])
  /\ in_data[2].shape[2] # out_data[1].shape[3]

(***************************************************************************)
(* Pixels of CompletionLoss.                                               *)
(***************************************************************************)
\* the class (0-based) of the first largest channel of target at pixel p
TargetClass(target, p) ==
  CHOOSE k \in 0..(target.shape[2] - 1) :
    /\ \A j \in 0..(target.shape[2] - 1) :
         ~RLess(target.v[<<p[1], k + 1, p[2], p[3]>>],
                target.v[<<p[1], j + 1, p[2], p[3]>>])
    /\ \A j \in 0..(k - 1) :
         RLess(target.v[<<p[1], j + 1, p[2], p[3]>>],
               target.v[<<p[1], k + 1, p[2], p[3]>>])

\* class k is a label value somewhere in the label map of sample i
Occurs(label, i, k) == \E q \in DOMAIN label.v : q[1] = i /\ label.v[q] = R(k)

(***************************************************************************)
(* C4: CompletionLoss.backward: a pixel has mask value 1 exactly when the  *)
(* argmax class of target at the pixel occurs as a label value in the      *)
(* label map of the same sample, and at every other pixel the gradient     *)
(* written to in_grad[0] is zero in all channels.                          *)
(***************************************************************************)
C4_MaskedGradient ==
  [][(kind = "CompletionLoss" /\ IsBackward) =>
       LET target == in_data[2]
           label  == in_data[3]
           mask   == Completion_mask(Completion_onehot(in_data))
           w      == Written(in_grad[1], in_grad'[1], req[1])
       IN  /\ \A t \in DOMAIN mask.v :
                mask.v[t] =
                  IF Occurs(label, t[1],
                            TargetClass(target, <<t[1], t[3], t[4]>>))
                  THEN One ELSE Zero
           /\ (Returned /\ req[1] # "null") =>
                \A t \in DOMAIN w.v :
                  mask.v[<<t[1], 1, t[3], t[4]>>] = Zero => w.v[t] = Zero]_vars

(***************************************************************************)
(* C6: CompletionLoss.backward never divides by zero: for every input,     *)
(* including one where no pixel's target argmax class occurs in its        *)
(* sample's label map, num_pixel is strictly positive and the gradient     *)
(* written to in_grad[0] is well defined.                                  *)
(***************************************************************************)
C6_NumPixelPositive ==
  [][(kind = "CompletionLoss" /\ IsBackward) =>
       LET np == Completion_num_pixel(
                   Completion_mask(Completion_onehot(in_data)))
       IN  /\ ~IsSpecial(np) /\ RLess(Zero, np)
           /\ (Returned /\ req[1] # "null") =>
                Finite(Written(in_grad[1], in_grad'[1], req[1]))]_vars

(***************************************************************************)
(* What a backward call computes and which buffers it clears.              *)
(***************************************************************************)
\* the gradient buffers a backward call of the operator sets to zero
Zeroed ==
  IF kind = "BilinearScale" THEN {}
  ELSE IF kind = "CompletionLoss" THEN {2, 3}
  ELSE {2}

\* the gradient a backward call of a loss passes to assign
LossGradient ==
  IF kind = "SegmentLoss"
  THEN Segment_grad(has_grad_scale, in_data, out_data[1])
  ELSE IF kind = "CompletionLoss"
  THEN Completion_grad(has_grad_scale, in_data, out_data[1])
  ELSE MultiSigmoid_grad(in_data, out_data[1])

(***************************************************************************)
(* C8: every backward call of the five operators modifies only gradient    *)
(* buffers: in_data and out_data are left unchanged, and so is the         *)
(* gradient buffer of the optional scale input; when the call returns,     *)
(* in_grad[0] has received the data gradient as req[0] asks (kept for      *)
(* null, replaced for write, added to for add), and the gradient buffers   *)
(* of the reference, label and target inputs are all zeros whatever their  *)
(* req entry is.                                                           *)
(***************************************************************************)
C8_OnlyGradientBuffers ==
  [][IsBackward =>
       LET grad == IF kind \in Resize THEN self_x'.grad ELSE LossGradient
       IN  /\ in_data' = in_data
           /\ out_data' = out_data
           /\ \A i \in 2..Len(in_grad) :
                i \notin Zeroed => in_grad'[i] = in_grad[i]
           /\ Returned =>
                /\ \A i \in Zeroed : AllZero(in_grad'[i])
                /\ req[1] = "null" => in_grad'[1] = in_grad[1]
                /\ req[1] = "write" => in_grad'[1] = grad
                /\ req[1] = "add" =>
                     in_grad'[1] = Bcast(in_grad[1], grad, RAdd)]_vars

\* CompletionLoss with a scale input and requests null: backward returned,
\* the target and label gradients are zero, the data gradient and the scale
\* gradient still hold what they held before
C8_Witness ==
  /\ kind = "CompletionLoss"
  /\ has_grad_scale
  /\ last = "backward"
  /\ err = "none"
  /\ req = <<"null", "null", "null", "null">>
  /\ in_grad[1] = Fill(in_grad[1].shape, Stale)
  /\ AllZero(in_grad[2])
  /\ AllZero(in_grad[3])
  /\ in_grad[4] = Fill(in_grad[4].shape, Stale)

(***************************************************************************)
(* C10: the three loss operators keep no state between calls: forward      *)
(* stores nothing on the instance and its output is a function of          *)
(* in_data[0] alone; the gradient a backward call writes is a function of  *)
(* that call's in_data and out_data and of has_grad_scale alone, so two    *)
(* backward calls with the same in_data and out_data write the same        *)
(* gradient whatever their out_grad and whatever was called before.        *)
(***************************************************************************)
C10_Stateless ==
  [][(kind \in Loss) =>
       LET w == Written(in_grad[1], in_grad'[1], req[1])
       IN  /\ self_x' = Unset
           /\ self_new_x' = Unset
           /\ (IsForward /\ Returned) =>
                out_data'[1] = IF kind = "MultiSigmoidLoss"
                               THEN sigmoid(in_data[1])
                               ELSE softmax(in_data[1])
           /\ (IsBackward /\ Returned /\ req[1] # "null") =>
                /\ w = LossGradient
                /\ (memo # NoMemo /\ memo.out_data = out_data[1]) =>
                     w = memo.written]_vars

\* a second backward on the same in_data and out_data with another out_grad
\* has written the gradient the first one wrote, and it is not zero
C10_Witness ==
  /\ kind \in Loss
  /\ last = "backward"
  /\ calls = 2
  /\ err = "none"
  /\ req[1] = "write"
  /\ memo # NoMemo
  /\ memo.out_data = out_data[1]
  /\ memo.out_grad # out_grad[1]
  /\ in_grad[1] = memo.written
  /\ ~AllZero(in_grad[1])
====
